---- MODULE Spec2Model ----
(***************************************************************************)
(* Model of package table (golang-sql/table): FillSet drains a             *)
(* database/sql cursor into a Set of Buffers, Buffer.Get / Row.Get resolve *)
(* a column name through the Column Index, and BufferToStruct copies a     *)
(* Buffer into a slice of structs.                                         *)
(*                                                                         *)
(* Go slices are modelled as sequences (Go index i is TLA+ index i + 1),   *)
(* Go maps as functions whose domain is the set of keys (a nil map is the  *)
(* function with the empty domain).                                        *)
(***************************************************************************)
EXTENDS Integers, Sequences, FiniteSets, TLC

\* ---------------------------------------------------------------- bounds
MaxSets == 2
MaxCols == 2
MaxRows == 2
MaxFields == 3

\* ------------------------------------------------------- input universes
\* Column names a cursor may report.
ColNames == {"ID", "Name"}
\* Declared names of struct fields.
FieldNames == {"ID", "Name", "Age"}
\* Values of the sql tag of a field: "none" stands for "no sql tag".
NoTag == "none"
TagValues == {NoTag, "-", "ID", "Age"}
\* Declared types of struct fields and runtime types of buffered values.
FieldTypes == {"int64", "string"}
NilType == "nil"

\* All sequences over S of length lo..hi.
SeqsOf(S, lo, hi) == UNION {[1..n -> S] : n \in lo..hi}

ColLists == SeqsOf(ColNames, 1, MaxCols)

\* The runtime type the driver gives a column's values.
ColType(name) == IF name = "ID" THEN "int64" ELSE "string"

\* The value the cursor holds in result set r, record k, column j.
CellValue(cols, r, k, j) == [type |-> ColType(cols[j]), val |-> 100 * r + 10 * k + j]
NilValue == [type |-> NilType, val |-> 0]

\* A nil error.
NoErr == [op |-> "nil", at |-> 0]

\* ------------------------------------------------------------- Go maps
EmptyMap == [x \in {} |-> 0]
MapPut(m, k, v) == [x \in (DOMAIN m) \cup {k} |-> IF x = k THEN v ELSE m[x]]
MapPutIfAbsent(m, k, v) == IF k \in DOMAIN m THEN m ELSE MapPut(m, k, v)

\* table.columnNameIndex[n] = i, one assignment of the index loop.
IndexAssignFirstWins(m, n, i) == MapPutIfAbsent(m, n, i)
IndexAssign(m, n, i) == MapPut(m, n, i)

\* for i, n := range table.Columns { table.columnNameIndex[n] = i }
RECURSIVE BuildIndexFrom(_, _, _)
BuildIndexFrom(cols, i, m) ==
    IF i > Len(cols) THEN m
    ELSE BuildIndexFrom(cols, i + 1, IndexAssign(m, cols[i], i - 1))

BuildIndex(cols) == BuildIndexFrom(cols, 1, EmptyMap)

\* ------------------------------------------------------- Buffer and Row
\* &Buffer{Rows: make([]Row, 0, 10)}
NewTable == [Columns |-> <<>>, Rows |-> <<>>, columnNameIndex |-> EmptyMap]

\* Row{columnNameIndex: table.columnNameIndex, Field: out}
NewRowOf(t, out) == [columnNameIndex |-> t.columnNameIndex, Field |-> out]

\* ---------------------------------------------------------------- state
VARIABLES
    pc,         \* position in FillSet: "Next", "Body", "Scan", "EndRS", "Done"
    set,        \* var set Set
    table,      \* table *Buffer, the Buffer being filled
    first,      \* first
    colCount,   \* colCount
    destLen,    \* len(dest)
    curCols,    \* cursor: column names of the current result set (<<>>: not yet shown)
    curRS,      \* cursor: ordinal of the current result set, from 1
    curRow,     \* cursor: ordinal of the current record in the result set, from 1
    rowsErr,    \* cursor: rows.Err(), nil or the failure that stopped Next / NextResultSet
    retErr,     \* the error FillSet returned, nil or the failure
    calls,      \* number of calls made on the cursor
    failure,    \* the failure Columns or Scan returned: [op, at], at = calls then; or nil
    partial,    \* the table that was being filled when FillSet returned on a failure
    seen,       \* history: per result set, [cols, n]: its columns and records scanned
    buf,        \* BufferToStruct: the Buffer argument
    T,          \* BufferToStruct: the fields of the type argument
    result      \* BufferToStruct: what the call produced

fillVars == <<pc, set, table, first, colCount, destLen, curCols, curRS, curRow,
              rowsErr, retErr, calls, failure, partial, seen>>
structVars == <<buf, T, result>>
vars == <<pc, set, table, first, colCount, destLen, curCols, curRS, curRow,
          rowsErr, retErr, calls, failure, partial, seen, buf, T, result>>

NoResult == [version |-> "none"]

InitFill ==
    /\ pc = "Next"
    /\ set = <<>>
    /\ table = NewTable
    /\ first = TRUE
    /\ colCount = 0
    /\ destLen = 0
    /\ curCols = <<>>
    /\ curRS = 1
    /\ curRow = 0
    /\ rowsErr = NoErr
    /\ retErr = NoErr
    /\ calls = 0
    /\ failure = NoErr
    /\ partial = NewTable
    /\ seen = <<[cols |-> <<>>, n |-> 0]>>

InitIdleStruct ==
    /\ buf = NewTable
    /\ T = <<>>
    /\ result = NoResult

Init == InitFill /\ InitIdleStruct

\* ------------------------------------------------------------- FillSet
\* rows.Next() returns true: the cursor stands on the next record. The first
\* record of a result set makes its column names known.
RowsNextTrue ==
    /\ pc = "Next"
    /\ UNCHANGED structVars
    /\ rowsErr = NoErr
    /\ curRow < MaxRows
    /\ \E cols \in ColLists :
        /\ (curCols # <<>>) => cols = curCols
        /\ curCols' = cols
        /\ seen' = [seen EXCEPT ![curRS].cols = cols]
    /\ curRow' = curRow + 1
    /\ calls' = calls + 1
    /\ pc' = "Body"
    /\ UNCHANGED <<set, table, first, colCount, destLen, curRS, rowsErr, retErr,
                   failure, partial>>

\* rows.Next() returns false at the end of the result set.
RowsNextFalse ==
    /\ pc = "Next"
    /\ UNCHANGED structVars
    /\ rowsErr = NoErr
    /\ calls' = calls + 1
    /\ pc' = "EndRS"
    /\ UNCHANGED <<set, table, first, colCount, destLen, curCols, curRS, curRow,
                   rowsErr, retErr, failure, partial, seen>>

\* rows.Next() returns false because the cursor failed; rows.Err() keeps the
\* failure and the cursor is closed.
RowsNextFail ==
    /\ pc = "Next"
    /\ UNCHANGED structVars
    /\ rowsErr = NoErr
    /\ rowsErr' = [op |-> "Next", at |-> calls + 1]
    /\ calls' = calls + 1
    /\ pc' = "EndRS"
    /\ UNCHANGED <<set, table, first, colCount, destLen, curCols, curRS, curRow,
                   retErr, failure, partial, seen>>

\* What FillSet returns when Columns or Scan fails: return set, err.
FailureSetWithPartial(s, t) == Append(s, t)
FailureSet(s, t) == s

FailureErr(e) == e

\* if first { first = false; table.Columns, err = rows.Columns(); ... }
BodyColumns ==
    /\ pc = "Body"
    /\ UNCHANGED structVars
    /\ first
    /\ first' = FALSE
    /\ calls' = calls + 1
    /\ table' = [table EXCEPT !.Columns = curCols,
                              !.columnNameIndex = BuildIndex(curCols)]
    /\ colCount' = Len(curCols)
    /\ destLen' = Len(curCols)
    /\ pc' = "Scan"
    /\ UNCHANGED <<set, curCols, curRS, curRow, rowsErr, retErr, failure, partial, seen>>

\* rows.Columns() fails: return set, err.
BodyColumnsFail ==
    /\ pc = "Body"
    /\ UNCHANGED structVars
    /\ first
    /\ first' = FALSE
    /\ calls' = calls + 1
    /\ failure' = [op |-> "Columns", at |-> calls + 1]
    /\ retErr' = FailureErr(failure')
    /\ set' = FailureSet(set, table)
    /\ partial' = table
    /\ pc' = "Done"
    /\ UNCHANGED <<table, colCount, destLen, curCols, curRS, curRow, rowsErr, seen>>

\* Not the first record of the result set: the if is skipped.
BodySkip ==
    /\ pc = "Body"
    /\ UNCHANGED structVars
    /\ ~first
    /\ pc' = "Scan"
    /\ UNCHANGED <<set, table, first, colCount, destLen, curCols, curRS, curRow,
                   rowsErr, retErr, calls, failure, partial, seen>>

\* out = make([]interface{}, colCount); for i := range dest { dest[i] = &out[i] };
\* rows.Scan(dest...) stores the record's values through dest.
ScannedOut(n, cols, r, k) == [j \in 1..n |-> CellValue(cols, r, k, j)]

\* table.Rows = append(table.Rows, Row{...})
AppendRow(t, out) == [t EXCEPT !.Rows = Append(t.Rows, NewRowOf(t, out))]

\* rows.Scan succeeds (database/sql requires len(dest) = number of columns).
ScanOK ==
    /\ pc = "Scan"
    /\ UNCHANGED structVars
    /\ destLen = Len(curCols)
    /\ colCount = destLen
    /\ calls' = calls + 1
    /\ table' = AppendRow(table, ScannedOut(colCount, curCols, curRS, curRow))
    /\ seen' = [seen EXCEPT ![curRS].n = @ + 1]
    /\ pc' = "Next"
    /\ UNCHANGED <<set, first, colCount, destLen, curCols, curRS, curRow, rowsErr,
                   retErr, failure, partial>>

\* rows.Scan fails: return set, err.
ScanFail ==
    /\ pc = "Scan"
    /\ UNCHANGED structVars
    /\ calls' = calls + 1
    /\ failure' = [op |-> "Scan", at |-> calls + 1]
    /\ retErr' = FailureErr(failure')
    /\ set' = FailureSet(set, table)
    /\ partial' = table
    /\ pc' = "Done"
    /\ UNCHANGED <<table, first, colCount, destLen, curCols, curRS, curRow, rowsErr, seen>>

\* table = &Buffer{Rows: make([]Row, 0, 10)} for the next result set.
SameTable(t) == t
NextTable(t) == NewTable

\* set = append(set, table) once rows.Next() returned false.
AppendTableIfRows(s, t) == IF t.Rows = <<>> THEN s ELSE Append(s, t)
AppendTable(s, t) == Append(s, t)

\* colCount := 0 at the top of the outer loop.
ResetColCount(n) == 0

\* set = append(set, table); rows.NextResultSet() returns true; the outer loop
\* starts over with a new table, first := true, colCount := 0.
EndResultSetMore ==
    /\ pc = "EndRS"
    /\ UNCHANGED structVars
    /\ rowsErr = NoErr
    /\ curRS < MaxSets
    /\ set' = AppendTable(set, table)
    /\ calls' = calls + 1
    /\ table' = NextTable(table)
    /\ first' = TRUE
    /\ colCount' = ResetColCount(colCount)
    /\ curRS' = curRS + 1
    /\ curRow' = 0
    /\ curCols' = <<>>
    /\ seen' = Append(seen, [cols |-> <<>>, n |-> 0])
    /\ pc' = "Next"
    /\ UNCHANGED <<destLen, rowsErr, retErr, failure, partial>>

\* set = append(set, table); rows.NextResultSet() returns false (no further
\* result set, or the cursor is closed after a failure): break; return set, nil.
EndResultSetLast ==
    /\ pc = "EndRS"
    /\ UNCHANGED structVars
    /\ set' = AppendTable(set, table)
    /\ calls' = calls + 1
    /\ retErr' = NoErr
    /\ pc' = "Done"
    /\ UNCHANGED <<table, first, colCount, destLen, curCols, curRS, curRow, rowsErr,
                   failure, partial, seen>>

\* rows.NextResultSet() returns false because advancing failed.
EndResultSetFail ==
    /\ pc = "EndRS"
    /\ UNCHANGED structVars
    /\ rowsErr = NoErr
    /\ set' = AppendTable(set, table)
    /\ calls' = calls + 1
    /\ rowsErr' = [op |-> "NextResultSet", at |-> calls + 1]
    /\ retErr' = NoErr
    /\ pc' = "Done"
    /\ UNCHANGED <<table, first, colCount, destLen, curCols, curRS, curRow,
                   failure, partial, seen>>

\* ------------------------------------------------------ Buffer.Get, Row.Get
\* IndexError values and the outcomes of a lookup.
IndexErrorName(name) == [subject |-> "indexErrorName", notFoundName |-> name]
IndexErrorRow(length, requested) ==
    [subject |-> "indexErrorRow", length |-> length, requested |-> requested]
Returned(v) == [kind |-> "value", value |-> v]
Panicked(e) == [kind |-> "panic", err |-> e]
\* A slice index outside 0..len-1 is a Go runtime panic.
RuntimePanic == [kind |-> "panic", err |-> [subject |-> "runtime"]]
SliceAt(sl, i) == IF i >= 0 /\ i < Len(sl) THEN Returned(sl[i + 1]) ELSE RuntimePanic

\* func (t *Buffer) Get(rowIndex int, columnName string) interface{}
BufferGet(t, rowIndex, columnName) ==
    IF columnName \notin DOMAIN t.columnNameIndex
    THEN Panicked(IndexErrorName(columnName))
    ELSE IF Len(t.Rows) <= rowIndex
    THEN Panicked(IndexErrorRow(Len(t.Rows), rowIndex))
    ELSE IF rowIndex < 0
    THEN RuntimePanic
    ELSE SliceAt(t.Rows[rowIndex + 1].Field, t.columnNameIndex[columnName])

\* func (r Row) Get(columnName string) interface{}
RowGet(r, columnName) ==
    IF columnName \notin DOMAIN r.columnNameIndex
    THEN Panicked(IndexErrorName(columnName))
    ELSE SliceAt(r.Field, r.columnNameIndex[columnName])

\* NewBuffer on top of NewSet / FillSet: what it returns for FillSet's (set, err).
NewBuffer(s, e) ==
    IF e # NoErr THEN [table |-> "nil", err |-> e]
    ELSE IF Len(s) = 0 THEN [table |-> "nil", err |-> [op |-> "IndexError", at |-> 0]]
    ELSE [table |-> s[1], err |-> NoErr]

\* -------------------------------------------------------- BufferToStruct
\* The struct types T: fields [Name, Tag, Type] with distinct names.
FieldDecls == [Name : FieldNames, Tag : TagValues, Type : FieldTypes]
StructTypes ==
    {t \in SeqsOf(FieldDecls, 0, MaxFields) :
        \A i, j \in DOMAIN t : i # j => t[i].Name # t[j].Name}

\* A Buffer as FillSet leaves it for one result set of n records over cols;
\* nullAt > 0 makes column nullAt of the last record NULL (a nil value).
FilledBuffer(cols, n, nullAt) ==
    LET t == [NewTable EXCEPT !.Columns = cols, !.columnNameIndex = BuildIndex(cols)]
        out(k) == [j \in DOMAIN cols |->
                     IF k = n /\ j = nullAt THEN NilValue ELSE CellValue(cols, 1, k, j)]
    IN [t EXCEPT !.Rows = [k \in 1..n |-> NewRowOf(t, out(k))]]

Buffers ==
    {NewTable} \cup
    {FilledBuffer(cols, n, z) : cols \in ColLists, n \in 1..MaxRows, z \in 0..1}

\* The policy constants of the tag-aware BufferToStruct.
reportUnmatchedStruct == TRUE
reportUnmatchedBuffer == FALSE

\* tag, ok := sf.Tag.Lookup("sql")
HasTag(sf) == sf.Tag # NoTag
TagText(sf) == IF HasTag(sf) THEN sf.Tag ELSE ""

\* index, ok := colMap[key]: the ordinal, or -1 when ok is false.
MapLookup(colMap, key) == IF key \in DOMAIN colMap THEN colMap[key] ELSE -1

\* The outcomes of a call.
CallOK(v, list) == [version |-> v, status |-> "ok", list |-> list]
CallError(v, e) == [version |-> v, status |-> "error", list |-> <<>>, err |-> e]
CallPanic(v, why) == [version |-> v, status |-> "panic", list |-> <<>>, why |-> why]

\* The zero value of a field of a freshly made T.
ZeroValue(type) == [type |-> type, val |-> 0]
ZeroRecord(fields) == [i \in DOMAIN fields |-> ZeroValue(fields[i].Type)]

\* rf := rv.Field(structIndex); rf.Set(reflect.ValueOf(fv)): reflect panics on a
\* field index out of range, on the zero Value of a nil fv and on a value whose
\* type is not assignable to the field's type.
ReflectSet(fields, rec, structIndex, fv) ==
    IF structIndex >= Len(fields)
    THEN [ok |-> FALSE, why |-> "reflect: Field index out of range"]
    ELSE IF fv.type = NilType
    THEN [ok |-> FALSE, why |-> "reflect: call of reflect.Value.Set on zero Value"]
    ELSE IF fv.type # fields[structIndex + 1].Type
    THEN [ok |-> FALSE, why |-> "reflect.Set: value is not assignable"]
    ELSE [ok |-> TRUE, rec |-> [rec EXCEPT ![structIndex + 1] = fv]]

\* for bufIndex, structIndex := range lookup { ... rf.Set(rfv) } for one row.
RECURSIVE CopyRow(_, _, _, _, _)
CopyRow(fields, lookup, row, bufIndex, rec) ==
    IF bufIndex >= Len(lookup) THEN [ok |-> TRUE, rec |-> rec]
    ELSE IF lookup[bufIndex + 1] < 0
    THEN CopyRow(fields, lookup, row, bufIndex + 1, rec)
    ELSE IF bufIndex >= Len(row.Field)
    THEN [ok |-> FALSE, why |-> "runtime: index out of range"]
    ELSE LET r == ReflectSet(fields, rec, lookup[bufIndex + 1], row.Field[bufIndex + 1])
         IN IF r.ok THEN CopyRow(fields, lookup, row, bufIndex + 1, r.rec) ELSE r

\* for i, row := range buf.Rows { v := &list[i]; ... }; return list, nil
CopyValues(v, b, fields, lookup) ==
    LET copied == [k \in DOMAIN b.Rows |->
                     CopyRow(fields, lookup, b.Rows[k], 0, ZeroRecord(fields))]
        bad == {k \in DOMAIN b.Rows : ~copied[k].ok}
    IN IF bad # {}
       THEN CallPanic(v, copied[CHOOSE k \in bad : \A m \in bad : k <= m].why)
       ELSE CallOK(v, [k \in DOMAIN b.Rows |-> copied[k].rec])

\* ---- the tag-aware version
\* name := sf.Name; if len(tag) > 0 { name = fmt.Sprintf("%s(tag=%s)", sf.Name, tag) }
UnusedName(sf) == IF Len(TagText(sf)) > 0 THEN <<sf.Name, TagText(sf)>> ELSE <<sf.Name>>

\* missingStruct = append(missingStruct, name)
AppendMissingFirstOnly(missing, name) == IF missing = <<>> THEN <<name>> ELSE missing
AppendMissing(missing, name) == Append(missing, name)

\* The column a field binds to: by its sql tag when it has one, else by its name.
ResolveTagThenName(sf, colMap) ==
    IF HasTag(sf) /\ MapLookup(colMap, sf.Tag) >= 0
    THEN MapLookup(colMap, sf.Tag)
    ELSE MapLookup(colMap, sf.Name)
ResolveTagAware(sf, colMap) ==
    IF HasTag(sf) THEN MapLookup(colMap, sf.Tag) ELSE MapLookup(colMap, sf.Name)

\* if tag == "-" { continue }
SkipField(sf) == HasTag(sf) /\ sf.Tag = "-"

\* The field loop: for i := 0; i < tp.NumField(); i++ { ... }
RECURSIVE BindTagAware(_, _, _, _, _)
BindTagAware(fields, colMap, i, lookup, missing) ==
    IF i >= Len(fields) THEN [lookup |-> lookup, missingStruct |-> missing]
    ELSE LET sf == fields[i + 1]
             index == ResolveTagAware(sf, colMap)
         IN IF SkipField(sf)
            THEN BindTagAware(fields, colMap, i + 1, lookup, missing)
            ELSE IF index >= 0
            THEN BindTagAware(fields, colMap, i + 1, [lookup EXCEPT ![index + 1] = i], missing)
            ELSE IF reportUnmatchedStruct
            THEN BindTagAware(fields, colMap, i + 1, lookup,
                              AppendMissing(missing, UnusedName(sf)))
            ELSE BindTagAware(fields, colMap, i + 1, lookup, missing)

\* if reportUnmatchedBuffer { for bufIndex, structIndex := range lookup { ... } }
MissingBuffer(b, lookup) ==
    IF reportUnmatchedBuffer
    THEN SelectSeq([j \in DOMAIN lookup |-> IF lookup[j] < 0 THEN b.Columns[j] ELSE ""],
                   LAMBDA name : Len(name) > 0)
    ELSE <<>>

\* errors.Join of the errors that were raised.
JoinErrors(missingStruct, missingBuffer) ==
    (IF Len(missingStruct) > 0
     THEN <<[msg |-> "unused fields in struct", names |-> missingStruct]>> ELSE <<>>)
    \o (IF Len(missingBuffer) > 0
        THEN <<[msg |-> "unused fields in query", names |-> missingBuffer]>> ELSE <<>>)

\* BufferToStruct[T](buf) of struct_test.go.
BufferToStructTagAwareOf(b, fields) ==
    LET bound == BindTagAware(fields, b.columnNameIndex, 0,
                              [j \in DOMAIN b.Columns |-> -1], <<>>)
        err == JoinErrors(bound.missingStruct, MissingBuffer(b, bound.lookup))
    IN IF err # <<>> THEN CallError("tagAware", err)
       ELSE CopyValues("tagAware", b, fields, bound.lookup)

\* ---- the name-first version
\* The field loop of struct.go; lookup[i] = -1 indexes lookup by the field ordinal.
RECURSIVE BindNameFirst(_, _, _, _)
BindNameFirst(fields, colMap, i, lookup) ==
    IF i >= Len(fields) THEN [ok |-> TRUE, lookup |-> lookup]
    ELSE LET sf == fields[i + 1]
             byName == MapLookup(colMap, sf.Name)
             byTag == IF HasTag(sf) THEN MapLookup(colMap, sf.Tag) ELSE -1
         IN IF byName >= 0
            THEN BindNameFirst(fields, colMap, i + 1, [lookup EXCEPT ![byName + 1] = i])
            ELSE IF byTag >= 0
            THEN BindNameFirst(fields, colMap, i + 1, [lookup EXCEPT ![byTag + 1] = i])
            ELSE IF i >= Len(lookup)
            THEN [ok |-> FALSE, why |-> "runtime: index out of range"]
            ELSE BindNameFirst(fields, colMap, i + 1, [lookup EXCEPT ![i + 1] = -1])

\* BufferToStruct[T](buf) of struct.go.
BufferToStructNameFirstOf(b, fields) ==
    LET bound == BindNameFirst(fields, b.columnNameIndex, 0, [j \in DOMAIN b.Columns |-> 0])
    IN IF ~bound.ok THEN CallPanic("nameFirst", bound.why)
       ELSE CopyValues("nameFirst", b, fields, bound.lookup)

\* ---- the calls
InitStruct ==
    /\ InitFill
    /\ buf \in Buffers
    /\ T \in StructTypes
    /\ result = NoResult

BufferToStructTagAware ==
    /\ result = NoResult
    /\ result' = BufferToStructTagAwareOf(buf, T)
    /\ UNCHANGED <<buf, T>>
    /\ UNCHANGED fillVars

BufferToStructNameFirst ==
    /\ result = NoResult
    /\ result' = BufferToStructNameFirstOf(buf, T)
    /\ UNCHANGED <<buf, T>>
    /\ UNCHANGED fillVars

NextStruct == BufferToStructTagAware \/ BufferToStructNameFirst

SpecStruct == InitStruct /\ [][NextStruct]_vars

\* --------------------------------------------------------------- helpers
\* Every Buffer the program holds: the Set's and the one being filled.
AllBuffers == {set[b] : b \in DOMAIN set} \cup {table}

\* The ordinal (from 0) of the last occurrence of c in cols.
LastOrdinal(cols, c) ==
    CHOOSE j \in 0..(Len(cols) - 1) :
        /\ cols[j + 1] = c
        /\ \A k \in (j + 1)..(Len(cols) - 1) : cols[k + 1] # c

\* What result set b of the cursor holds once drained, by the history of the cursor.
ExpectedBuffer(b) ==
    IF seen[b].n = 0 THEN NewTable
    ELSE LET cols == seen[b].cols
             idx == [c \in {cols[j] : j \in DOMAIN cols} |-> LastOrdinal(cols, c)]
         IN [Columns |-> cols,
             Rows |-> [k \in 1..seen[b].n |->
                        [columnNameIndex |-> idx,
                         Field |-> [j \in DOMAIN cols |-> CellValue(cols, b, k, j)]]],
             columnNameIndex |-> idx]

\* ---------------------------------------------------------------- claims
\* C3 (as claimed): when Columns or Scan fails in the middle of a result set,
\* the Set returned with the error still holds the partial Buffer of that
\* result set, rows appended before the failure intact, and NewBuffer hands
\* out a Buffer too.
C3_PartialReturned ==
    (pc = "Done" /\ failure # NoErr) =>
        /\ Len(set) = curRS
        /\ set[curRS] = partial
        /\ NewBuffer(set, retErr).table # "nil"

\* C4: when Columns or Scan fails, no further call is made on the cursor, the
\* failure is returned unchanged, and the returned Set holds exactly the
\* Buffers of the result sets ingested completely before, in order, unmodified.
C4_AbortKeepsCompleted ==
    (pc = "Done" /\ failure # NoErr) =>
        /\ calls = failure.at
        /\ retErr = failure
        /\ Len(set) = curRS - 1
        /\ \A b \in 1..Len(set) : set[b] = ExpectedBuffer(b)

C4_Witness ==
    /\ pc = "Done"
    /\ failure.op = "Scan"
    /\ Len(set) = 1
    /\ Len(set[1].Rows) = 2
    /\ Len(partial.Rows) = 1

\* C5 (as claimed): FillSet returns a nil error only if the cursor was drained;
\* when Next or NextResultSet stopped on a cursor failure, the error is non-nil.
C5_NilErrorMeansDrained ==
    (pc = "Done" /\ retErr = NoErr) =>
        /\ rowsErr = NoErr
        /\ Len(set) = Len(seen)
        /\ \A b \in 1..Len(set) : Len(set[b].Rows) = seen[b].n

\* C9: for every Buffer of the Set, every column name c of Columns and every
\* row i, Row.Get(c) and Buffer.Get(i, c) return Rows[i].Field[index(c)], index(c)
\* the ordinal of the last occurrence of c, and all rows share the Buffer's index.
C9_GetByLastOrdinal ==
    \A b \in DOMAIN set : \A i \in DOMAIN set[b].Rows :
        /\ set[b].Rows[i].columnNameIndex = set[b].columnNameIndex
        /\ \A j \in DOMAIN set[b].Columns :
            LET c == set[b].Columns[j]
                want == Returned(set[b].Rows[i].Field[LastOrdinal(set[b].Columns, c) + 1])
            IN /\ RowGet(set[b].Rows[i], c) = want
               /\ BufferGet(set[b], i - 1, c) = want

C9_Witness ==
    /\ pc = "Done"
    /\ retErr = NoErr
    /\ \E b \in DOMAIN set :
        /\ set[b].Columns = <<"Name", "Name">>
        /\ Len(set[b].Rows) = 2
        /\ RowGet(set[b].Rows[2], "Name") = Returned(set[b].Rows[2].Field[2])

\* C10: in every state during and after FillSet, every Row of every Buffer
\* (in the Set or being filled) has as many fields as its Buffer has Columns.
C10_RowWidth ==
    \A t \in AllBuffers : \A i \in DOMAIN t.Rows : Len(t.Rows[i].Field) = Len(t.Columns)

C10_Witness ==
    /\ Len(set) = 1
    /\ Len(set[1].Columns) = 1
    /\ Len(set[1].Rows) = 1
    /\ Len(table.Columns) = 2
    /\ Len(table.Rows) = 2


\* C11: when FillSet returns a nil error, the Set holds exactly one Buffer per
\* result set the cursor exposed, in cursor order, each with the records
\* retrieved from that result set in retrieval order; a result set without
\* records gives a Buffer with no Columns, no Rows and no Column Index, whatever
\* the result sets around it held.
C11_OneBufferPerResultSet ==
    (pc = "Done" /\ retErr = NoErr) =>
        /\ Len(set) = curRS
        /\ Len(set) = Len(seen)
        /\ \A b \in 1..Len(set) :
            /\ set[b] = ExpectedBuffer(b)
            /\ seen[b].n = 0 => set[b] = NewTable

C11_Witness ==
    /\ pc = "Done"
    /\ retErr = NoErr
    /\ rowsErr = NoErr
    /\ Len(set) = 2
    /\ set[1].Columns = <<"ID", "Name">>
    /\ Len(set[1].Rows) = 2
    /\ set[2] = NewTable


\* C12 (as claimed): Buffer.Get with an existing column name fails with the
\* row-kind IndexError, carrying the row count and the requested index, for
\* every rowIndex outside 0..len(Rows)-1, too large or negative, and returns the
\* field value for every rowIndex inside.
C12_RowIndexValidated ==
    \A b \in DOMAIN set : \A j \in DOMAIN set[b].Columns :
        \A rowIndex \in (-2)..(Len(set[b].Rows) + 1) :
            LET c == set[b].Columns[j]
                got == BufferGet(set[b], rowIndex, c)
            IN IF rowIndex >= 0 /\ rowIndex < Len(set[b].Rows)
               THEN got = Returned(set[b].Rows[rowIndex + 1].Field[set[b].columnNameIndex[c] + 1])
               ELSE got = Panicked(IndexErrorRow(Len(set[b].Rows), rowIndex))

\* ---- BufferToStruct
\* A field tagged sql:"-".
Ignored(sf) == sf.Tag = "-"

\* Field i (from 1) of T is named in an unused-fields-in-struct error of the result.
Reported(i) ==
    /\ result.status = "error"
    /\ \E e \in DOMAIN result.err :
        /\ result.err[e].msg = "unused fields in struct"
        /\ \E n \in DOMAIN result.err[e].names : result.err[e].names[n][1] = T[i].Name

\* The key the tag-aware version resolves a field by, and whether it is a column.
BindKey(sf) == IF HasTag(sf) THEN sf.Tag ELSE sf.Name
Unbound(i) == ~Ignored(T[i]) /\ BindKey(T[i]) \notin DOMAIN buf.columnNameIndex

\* The column (ordinal from 0) that a field matching a column is matched to.
Target(sf) == buf.columnNameIndex[BindKey(sf)]

\* sql:"-" makes a field ignored in the tag-aware version only; the name-first
\* version knows no such tag.
IgnoredBy(v, sf) == v = "tagAware" /\ Ignored(sf)

\* Every field of T that version v does not ignore matches a column of its own,
\* by its name and, when it has an sql tag, by its tag as well, and every
\* buffered value of that column has the field's type.
Fits(v) ==
    /\ \A i \in DOMAIN T : ~IgnoredBy(v, T[i]) =>
        /\ BindKey(T[i]) \in DOMAIN buf.columnNameIndex
        /\ T[i].Name \in DOMAIN buf.columnNameIndex =>
              buf.columnNameIndex[T[i].Name] = Target(T[i])
        /\ \A k \in DOMAIN buf.Rows : buf.Rows[k].Field[Target(T[i]) + 1].type = T[i].Type
    /\ \A i, j \in DOMAIN T :
        (i # j /\ ~IgnoredBy(v, T[i]) /\ ~IgnoredBy(v, T[j])) => Target(T[i]) # Target(T[j])

\* C1 (as claimed): for a struct type whose non-ignored fields each match a
\* distinct column, either version of BufferToStruct succeeds with len(buf.Rows)
\* records, the k-th record's bound fields holding the k-th Row's values at the
\* matched columns; columns that match no field change no field.
C1_SubsetBinds ==
    (result.version # "none" /\ Fits(result.version)) =>
        /\ result.status = "ok"
        /\ Len(result.list) = Len(buf.Rows)
        /\ \A k \in DOMAIN result.list : \A i \in DOMAIN T :
            result.list[k][i] =
                IF IgnoredBy(result.version, T[i]) THEN ZeroValue(T[i].Type)
                ELSE buf.Rows[k].Field[Target(T[i]) + 1]

\* C2: in the tag-aware version, when at least one field not tagged sql:"-"
\* binds to no column, the call returns no records and one error that lists
\* all those fields in declaration order, and no field tagged sql:"-".
C2_AllUnusedListed ==
    (result.version = "tagAware" /\ \E i \in DOMAIN T : Unbound(i)) =>
        /\ result.status = "error"
        /\ result.list = <<>>
        /\ Len(result.err) = 1
        /\ LET names == result.err[1].names
               U == {i \in DOMAIN T : Unbound(i)}
           IN /\ Len(names) = Cardinality(U)
              /\ \A i \in U : \E n \in DOMAIN names : names[n][1] = T[i].Name
              /\ \A n, m \in DOMAIN names : \A i, j \in U :
                    (n < m /\ names[n][1] = T[i].Name /\ names[m][1] = T[j].Name) => i < j
              /\ \A i \in DOMAIN T : Ignored(T[i]) =>
                    \A n \in DOMAIN names : names[n][1] # T[i].Name

C2_Witness ==
    /\ result.version = "tagAware"
    /\ Len(T) = 3
    /\ Unbound(1) /\ Ignored(T[2]) /\ Unbound(3)
    /\ Len(buf.Rows) = 2
    /\ result.status = "error"
    /\ Len(result.err[1].names) = 2

\* C6 (as claimed): the Buffer of a result set with zero records (no Columns,
\* no Rows, no Column Index), given to the tag-aware BufferToStruct for any
\* struct type, yields an empty slice and a nil error.
C6_EmptyBufferOK ==
    (result.version = "tagAware" /\ buf = NewTable) =>
        /\ result.status = "ok"
        /\ result.list = <<>>

\* C7 (as claimed): in the tag-aware version, when a buffered value bound to a
\* field is not assignable to the field's type (a nil value included), the call
\* returns a type-mismatch error, and no records, rather than crashing.
C7_MismatchIsError ==
    LET bound == BindTagAware(T, buf.columnNameIndex, 0,
                              [j \in DOMAIN buf.Columns |-> -1], <<>>)
    IN (/\ result.version = "tagAware"
        /\ bound.missingStruct = <<>>
        /\ \E k \in DOMAIN buf.Rows : \E j \in DOMAIN bound.lookup :
            /\ bound.lookup[j] >= 0
            /\ buf.Rows[k].Field[j].type # T[bound.lookup[j] + 1].Type) =>
        /\ result.status = "error"
        /\ result.list = <<>>

\* C8 (as claimed): in the tag-aware version a non-ignored field is recorded as
\* unused only if neither its sql tag nor its declared name is a column name.
C8_ReportedOnlyIfNeither ==
    result.version = "tagAware" =>
        \A i \in DOMAIN T : Reported(i) =>
            /\ T[i].Name \notin DOMAIN buf.columnNameIndex
            /\ HasTag(T[i]) => T[i].Tag \notin DOMAIN buf.columnNameIndex

\* C8 (amended): in the tag-aware version a field is recorded as unused if and
\* only if it is not tagged sql:"-" and its sql tag, when it has one, and its
\* declared name otherwise, is not a column name; a field whose tag matches no
\* column is recorded, with its tag, even when its declared name is a column.
C8_ReportedIffKeyUnmatched ==
    result.version = "tagAware" =>
        \A i \in DOMAIN T :
            /\ Reported(i) <=> Unbound(i)
            /\ (Unbound(i) /\ HasTag(T[i])) =>
                  \E n \in DOMAIN result.err[1].names :
                      result.err[1].names[n] = <<T[i].Name, T[i].Tag>>

C8_Witness ==
    /\ result.version = "tagAware"
    /\ \E i \in DOMAIN T :
        /\ HasTag(T[i])
        /\ T[i].Tag \notin DOMAIN buf.columnNameIndex
        /\ T[i].Name \in DOMAIN buf.columnNameIndex
        /\ Reported(i)

\* C13 (as claimed): whenever the tag-aware version returns without error, every
\* field not tagged sql:"-" holds, in every record, the value of the column its
\* tag or name resolved to, also when several fields resolve to one column.
C13_EveryBoundFieldFilled ==
    (result.version = "tagAware" /\ result.status = "ok") =>
        /\ Len(result.list) = Len(buf.Rows)
        /\ \A k \in DOMAIN result.list : \A i \in DOMAIN T :
            ~Ignored(T[i]) => result.list[k][i] = buf.Rows[k].Field[Target(T[i]) + 1]


\* ------------------------------------------------------- specification
Next ==
    \/ RowsNextTrue
    \/ RowsNextFalse
    \/ RowsNextFail
    \/ BodyColumns
    \/ BodyColumnsFail
    \/ BodySkip
    \/ ScanOK
    \/ ScanFail
    \/ EndResultSetMore
    \/ EndResultSetLast
    \/ EndResultSetFail

Spec == Init /\ [][Next]_vars

====
